---- MODULE Spec2Model ----
(***************************************************************************)
(* Model of SyncDB (src/src/syncDB/syncDB.py, src/src/syncDB/queries.py,   *)
(* src/src/__init__.py): a batch run copies the rows missing from a target *)
(* PostgreSQL database out of a source database, table by table.           *)
(*                                                                         *)
(* The two databases are modelled by what the SQL statements of the code   *)
(* read and write: the catalog (which tables exist in the public schema    *)
(* and in other schemas), the column lists, the primary key / uniqueness   *)
(* constraints, the committed rows of every table and the rows the target  *)
(* connection has written but not yet committed.                           *)
(*                                                                         *)
(* Scope: every table of a public schema has the columns (id, name); the   *)
(* source can hold a table of the same name in another schema; the only    *)
(* uniqueness constraint a table can carry is the primary key (id); a      *)
(* target table can also carry a constraint that refuses a row (CHECK,     *)
(* NOT NULL, FOREIGN KEY), which is what makes the bulk insert raise       *)
(* IntegrityError.                                                         *)
(* Other writers only add rows to target, one committed row at a time.     *)
(***************************************************************************)
EXTENDS Integers, Sequences, FiniteSets, TLC

\* ------------------------------------------------------------------ bounds
\* ids of the rows are 1..MaxId
MaxId == 2
\* number of executions of main() in one behaviour
MaxRuns == 2
\* number of rows written to target by writers other than the engine
MaxExt == 1

\* ------------------------------------------------------------ the universe
\* names of the tables of the source's public schema, in catalog order
Tables == <<"users", "orders">>
TableNames == {Tables[i] : i \in 1..Len(Tables)}
Ids == 1..MaxId
\* (column name, data type) pairs of every modelled table
Schema == << <<"id", "integer">>, <<"name", "text">> >>
ColumnNames(schema) == [i \in 1..Len(schema) |-> schema[i][1]]
\* a row the source holds, and a row another writer puts into target
SourceRow(i) == <<i, "a">>
ExternalRow(i) == <<i, "b">>

\* position of column c in the column list cols (source_columns.index(pk))
Index(cols, c) == CHOOSE i \in 1..Len(cols) : cols[i] = c

VARIABLES
    source,          \* source database: table name ->
                     \*   [pk, cols, rows, othercols]
    target,          \* target database, committed state: table name ->
                     \*   [public, other, cols, key, reject, rows]
    pend,            \* rows written by target_conn and not yet committed
    txOpen,          \* target_conn has a transaction in progress
    target_conn,     \* "none" | "open" | "closed"
    source_conn,     \* "none" | "open" | "closed"
    pc,              \* position of the run
    run,             \* number of the current execution of main()
    tables,          \* sync_all_tables: the enumerated table names
    ti,              \* sync_all_tables: position in tables
    primary_keys,    \* get_missing_rows: primary key columns
    source_rows,     \* get_missing_rows: the source scan
    source_columns,  \* get_missing_rows: column names of the scan
    ri,              \* get_missing_rows: position in source_rows
    missing_rows,    \* get_missing_rows / sync_table: rows to insert
    calls,           \* tables sync_table was invoked on in this run
    log,             \* per table: what the latest sync_table call logged
    prev,            \* per table: what the sync_table call before it logged
    pre,             \* per table: committed target rows when sync_table began
    ext,             \* per table: number of rows other writers committed
    created          \* tables target_conn created and has not yet committed

vars == <<source, target, pend, txOpen, target_conn, source_conn, pc, run,
          tables, ti, primary_keys, source_rows, source_columns, ri,
          missing_rows, calls, log, prev, pre, ext, created>>

locals == <<primary_keys, source_rows, source_columns, ri, missing_rows>>

\* ---------------------------------------------------------------- queries
\* queries.check_table_exists: information_schema.tables WHERE table_name = t
\* (no filter on the schema)
check_table_exists_never(db, t) == FALSE
check_table_exists(db, t) == db[t].public \/ db[t].other

\* queries.get_table_schema: information_schema.columns WHERE table_name = t
\* (no filter on the schema, no ORDER BY): the (name, type) pairs of the
\* columns of every table of that name, the tables in either order
get_table_schema(db, t) ==
    {db[t].cols \o db[t].othercols, db[t].othercols \o db[t].cols}

\* queries.fetch_primary_keys: the key columns of the primary index of t
fetch_primary_keys(db, t) == db[t].pk

\* queries.select_all_rows: SELECT * FROM t
select_all_rows(db, t) == db[t].rows

\* queries.construct_where_clause: the conjunction  k1 = %s AND k2 = %s ...
\* A where clause is the sequence of compared columns; it holds of a target
\* row (laid out as cols) and the parameter list values when every compared
\* column equals its parameter.
construct_where_clause_true(pks) == <<>>
construct_where_clause(pks) == pks
WhereHolds(where, cols, row, values) ==
    \A j \in 1..Len(where) : row[Index(cols, where[j])] = values[j]

\* what target_conn reads from table t: the committed rows and its own
\* uncommitted ones (READ COMMITTED)
Visible(t) == target[t].rows \o pend[t]

\* SELECT 1 FROM t WHERE <where>: TRUE when some row is fetched
Probe(t, where, values) ==
    \E i \in 1..Len(Visible(t)) :
        WhereHolds(where, ColumnNames(target[t].cols), Visible(t)[i], values)

\* value of the primary key columns of a row of the scan
\* (syncDB.py: pk_values = {pk: row[source_columns.index(pk)] ...})
pk_values(row, cols, pks) == [j \in 1..Len(pks) |-> row[Index(cols, pks[j])]]

\* "if not target_cur.fetchone()": the probe of the row's key fetches nothing
RowIsMissing_inverted(t, row, cols, pks) ==
    Probe(t, construct_where_clause(pks), pk_values(row, cols, pks))
RowIsMissing(t, row, cols, pks) ==
    ~Probe(t, construct_where_clause(pks), pk_values(row, cols, pks))

\* the row as the INSERT stores it: value of each target column taken from
\* the column list of the statement, NULL for a column the list leaves out
Stored(row, cols, tcols) ==
    [j \in 1..Len(tcols) |->
        IF \E i \in 1..Len(cols) : cols[i] = tcols[j]
        THEN row[Index(cols, tcols[j])]
        ELSE "NULL"]

\* the uniqueness constraint key of table t holds a row equal to r on key
Conflicts(rows, tcols, key, r) ==
    /\ key # <<>>
    /\ \E i \in 1..Len(rows) :
          \A j \in 1..Len(key) :
              rows[i][Index(tcols, key[j])] = r[Index(tcols, key[j])]

\* a CHECK / NOT NULL / FOREIGN KEY constraint of the table refuses the row
Refused(tbl, r) == r[Index(ColumnNames(tbl.cols), "id")] \in tbl.reject

\* queries.insert_missing_rows: INSERT INTO t (cols) VALUES ... ON CONFLICT
\* DO NOTHING.  Result: the rows the statement adds to what the connection
\* sees (seen), in order; a row is dropped when a uniqueness constraint of
\* the table already holds its key.
insert_missing_rows_first(seen, tcols, key, cols, rows) ==
    IF rows = <<>> THEN <<>> ELSE <<Stored(Head(rows), cols, tcols)>>
RECURSIVE insert_missing_rows(_, _, _, _, _)
insert_missing_rows(seen, tcols, key, cols, rows) ==
    IF rows = <<>> THEN <<>>
    ELSE LET r == Stored(Head(rows), cols, tcols)
         IN  IF Conflicts(seen, tcols, key, r)
             THEN insert_missing_rows(seen, tcols, key, cols, Tail(rows))
             ELSE <<r>> \o insert_missing_rows(Append(seen, r), tcols, key,
                                               cols, Tail(rows))

\* ------------------------------------------------------------ transactions
\* target_conn.commit(): the uncommitted rows become committed
Commit_skipped(tgt, pending) == tgt
Commit(tgt, pending) ==
    [t \in TableNames |-> [tgt[t] EXCEPT !.rows = tgt[t].rows \o pending[t]]]

NoPending == [t \in TableNames |-> <<>>]

\* target_conn.commit() after CREATE TABLE: the tables the transaction
\* created stay; none is left for a rollback to remove
CommitCreated_skipped(new) == new
CommitCreated(new) == {}

\* ------------------------------------------------------------------- Init
\* a source table: with primary key (id) and no row, with primary key and
\* the rows of all ids in scan order, without primary key
SourceScan(n) == [i \in 1..n |-> SourceRow(i)]
SourceTable(p, n) ==
    [pk |-> p, cols |-> Schema, rows |-> SourceScan(n), othercols |-> <<>>]
\* the source holds a table of the same name in another schema: a copy
\* with the same columns, or a table with a column of its own
Homonyms == {Schema, << <<"email", "text">> >>}
Homonym(src, columns) == [src EXCEPT !.othercols = columns]

\* a target table: absent, absent from public but present in another schema,
\* present without constraint (as the engine creates it), present with the
\* primary key of the source, present with the primary key and a constraint
\* that refuses the row of id MaxId
AbsentTable(o) ==
    [public |-> FALSE, other |-> o, cols |-> <<>>, key |-> <<>>,
     reject |-> {}, rows |-> <<>>]
PresentTable(k, rej) ==
    [public |-> TRUE, other |-> FALSE, cols |-> Schema, key |-> k,
     reject |-> rej, rows |-> <<>>]
Unconstrained == {AbsentTable(FALSE), AbsentTable(TRUE), PresentTable(<<>>, {})}
Constrained == {PresentTable(<<"id">>, {}), PresentTable(<<"id">>, {MaxId})}

\* the tables of one name in the two databases.  The constraints of a
\* target table act on inserted rows only, so they vary where the engine
\* has rows to insert; the source's table of the same name in another
\* schema acts on the creation of the target table only, so it comes with
\* a table that is absent from target and has no row to copy.
TablePairs ==
    {[src |-> SourceTable(<<"id">>, MaxId), tgt |-> g] :
        g \in Unconstrained \cup Constrained}
    \cup {[src |-> Homonym(SourceTable(<<"id">>, 0), c),
           tgt |-> AbsentTable(FALSE)] : c \in Homonyms}
    \cup {[src |-> s, tgt |-> g] :
            s \in {SourceTable(<<"id">>, 0), SourceTable(<<>>, MaxId)},
            g \in Unconstrained}

\* what one sync_table call logs: the line of check_and_create_table
\* ("copied" | "exists"), the missing primary key error, the line that ends
\* the call ("no_missing" | "synced" | "integrity" | "error"), the number of
\* rows it reports and the rows its INSERT added; ext, extIns and extEnd
\* are the number of external writes to the table when the call began, when
\* its INSERT was executed and when the call ended; absent tells that the
\* public schema of target had no such table when the call began
NoLog ==
    [schema |-> "none", pkerror |-> FALSE, result |-> "none", count |-> 0,
     added |-> <<>>, ext |-> 0, extIns |-> 0, extEnd |-> 0, absent |-> FALSE]

Init ==
    /\ \E db \in [TableNames -> TablePairs] :
          /\ source = [t \in TableNames |-> db[t].src]
          /\ target = [t \in TableNames |-> db[t].tgt]
    /\ pend = NoPending
    /\ txOpen = FALSE
    /\ target_conn = "none"
    /\ source_conn = "none"
    /\ pc = "main"
    /\ run = 1
    /\ tables = <<>>
    /\ ti = 0
    /\ primary_keys = <<>>
    /\ source_rows = <<>>
    /\ source_columns = <<>>
    /\ ri = 0
    /\ missing_rows = <<>>
    /\ calls = <<>>
    /\ log = [t \in TableNames |-> NoLog]
    /\ prev = [t \in TableNames |-> NoLog]
    /\ pre = [t \in TableNames |-> <<>>]
    /\ ext = [t \in TableNames |-> 0]
    /\ created = {}

\* the table sync_table is working on
table_name == tables[ti]

\* target_conn.rollback(): the uncommitted rows are discarded, and so are
\* the tables the transaction created
Rollback(pending) == NoPending
RollbackCreated(tgt, new) ==
    [t \in TableNames |->
        IF t \in new THEN AbsentTable(tgt[t].other) ELSE tgt[t]]

\* --------------------------------------------------------------- __init__
\* PostgresDatabaseSync.__init__, first half: self.connect(target_config).
\* psycopg2.connect either returns a connection or raises; connect logs and
\* re-raises, and main() does not catch.
connect_target ==
    /\ pc = "main"
    /\ \E ok \in BOOLEAN :
          IF ok
          THEN /\ target_conn' = "open"
               /\ pc' = "connect_source"
          ELSE /\ target_conn' = target_conn
               /\ pc' = "exit_error"
    /\ UNCHANGED <<source, target, pend, txOpen, source_conn, run, tables, ti,
                   locals, calls, log, prev, pre, ext, created>>

\* PostgresDatabaseSync.__init__, second half: self.connect(source_config)
connect_source ==
    /\ pc = "connect_source"
    /\ \E ok \in BOOLEAN :
          IF ok
          THEN /\ source_conn' = "open"
               /\ pc' = "sync_all_tables"
          ELSE /\ source_conn' = source_conn
               /\ pc' = "exit_error"
    /\ UNCHANGED <<source, target, pend, txOpen, target_conn, run, tables, ti,
                   locals, calls, log, prev, pre, ext, created>>

\* -------------------------------------------------------- sync_all_tables
\* the enumeration: information_schema.tables WHERE table_schema = 'public'
sync_all_tables ==
    /\ pc = "sync_all_tables"
    /\ tables' = Tables
    /\ ti' = 1
    /\ pc' = "for"
    /\ UNCHANGED <<source, target, pend, txOpen, target_conn, source_conn,
                   run, locals, calls, log, prev, pre, ext, created>>

\* for table_name in tables: self.sync_table(table_name); after the last
\* table "All tables synced successfully." is logged and main() returns
for_table ==
    /\ pc = "for"
    /\ IF ti <= Len(tables)
       THEN /\ pc' = "check_and_create_table"
            /\ calls' = Append(calls, table_name)
            /\ prev' = [prev EXCEPT ![table_name] = log[table_name]]
            /\ log' = [log EXCEPT ![table_name] =
                          [NoLog EXCEPT !.ext = ext[table_name],
                                        !.extIns = ext[table_name],
                                        !.absent = ~target[table_name].public]]
            /\ pre' = [pre EXCEPT ![table_name] = target[table_name].rows]
       ELSE /\ pc' = "exit_ok"
            /\ UNCHANGED <<calls, prev, log, pre>>
    /\ UNCHANGED <<source, target, pend, txOpen, target_conn, source_conn,
                   run, tables, ti, locals, ext, created>>

\* ------------------------------------------------- check_and_create_table
\* CREATE TABLE t (col1 type1, ...): the new table of the public schema has
\* the listed columns and no constraint
CreateTable(tbl, columns) ==
    [tbl EXCEPT !.public = TRUE, !.cols = columns, !.key = <<>>,
                !.reject = {}, !.rows = <<>>]
\* CREATE TABLE raises (DuplicateColumn) when a column name is listed twice
DuplicateColumn(columns) ==
    \E i, j \in 1..Len(columns) : i < j /\ columns[i][1] = columns[j][1]

check_and_create_table ==
    /\ pc = "check_and_create_table"
    /\ IF ~check_table_exists(target, table_name)
       THEN \E columns \in get_table_schema(source, table_name) :
              IF DuplicateColumn(columns)
              THEN /\ txOpen' = TRUE
                   /\ pc' = "except_Exception"
                   /\ UNCHANGED <<target, pend, log, created>>
              ELSE /\ target' = Commit(
                          [target EXCEPT ![table_name] =
                              CreateTable(@, columns)],
                          pend)
                   /\ created' = CommitCreated(created \cup {table_name})
                   /\ pend' = NoPending
                   /\ txOpen' = FALSE
                   /\ log' = [log EXCEPT ![table_name].schema = "copied"]
                   /\ pc' = "get_missing_rows"
       ELSE /\ txOpen' = TRUE
            /\ log' = [log EXCEPT ![table_name].schema = "exists"]
            /\ pc' = "get_missing_rows"
            /\ UNCHANGED <<target, pend, created>>
    /\ UNCHANGED <<source, target_conn, source_conn, run, tables, ti, locals,
                   calls, prev, pre, ext>>

\* ------------------------------------------------------- get_missing_rows
\* sync_table returns to the loop of sync_all_tables with this line logged
Return_skips(result, count, added) ==
    /\ log' = [log EXCEPT ![table_name].result = result,
                          ![table_name].count = count,
                          ![table_name].added = added,
                          ![table_name].extEnd = ext[table_name]]
    /\ pc' = "for"
    /\ ti' = ti + 2
Return(result, count, added) ==
    /\ log' = [log EXCEPT ![table_name].result = result,
                          ![table_name].count = count,
                          ![table_name].added = added,
                          ![table_name].extEnd = ext[table_name]]
    /\ pc' = "for"
    /\ ti' = ti + 1

get_missing_rows_raises ==
    /\ pc = "get_missing_rows"
    /\ primary_keys' = fetch_primary_keys(source, table_name)
    /\ missing_rows' = <<>>
    /\ IF primary_keys' = <<>>
       THEN /\ source_rows' = <<>>
            /\ source_columns' = <<>>
            /\ ri' = 0
            /\ log' = [log EXCEPT ![table_name].pkerror = TRUE]
            /\ pc' = "except_Exception"
       ELSE /\ source_rows' = select_all_rows(source, table_name)
            /\ source_columns' = ColumnNames(source[table_name].cols)
            /\ ri' = 1
            /\ pc' = "probe"
            /\ log' = log
    /\ UNCHANGED <<source, target, pend, txOpen, target_conn, source_conn,
                   run, tables, ti, calls, prev, pre, ext, created>>

\* get_missing_rows up to the loop over the scan.  Without primary key the
\* error is logged, ([], []) is returned and sync_table returns on
\* "if not missing_rows".
get_missing_rows ==
    /\ pc = "get_missing_rows"
    /\ primary_keys' = fetch_primary_keys(source, table_name)
    /\ missing_rows' = <<>>
    /\ IF primary_keys' = <<>>
       THEN /\ source_rows' = <<>>
            /\ source_columns' = <<>>
            /\ ri' = 0
            /\ log' = [log EXCEPT ![table_name].pkerror = TRUE,
                                  ![table_name].result = "no_missing",
                                  ![table_name].extEnd = ext[table_name]]
            /\ pc' = "for"
            /\ ti' = ti + 1
       ELSE /\ source_rows' = select_all_rows(source, table_name)
            /\ source_columns' = ColumnNames(source[table_name].cols)
            /\ ri' = 1
            /\ pc' = "probe"
            /\ UNCHANGED <<log, ti>>
    /\ UNCHANGED <<source, target, pend, txOpen, target_conn, source_conn,
                   run, tables, calls, prev, pre, ext, created>>

\* one turn of "for row in source_rows": the presence probe on target.  The
\* probe names the table without schema, so it raises (UndefinedTable) when
\* the public schema has no such table.
probe ==
    /\ pc = "probe"
    /\ ri <= Len(source_rows)
    /\ IF ~target[table_name].public
       THEN /\ pc' = "except_Exception"
            /\ UNCHANGED <<missing_rows, ri>>
       ELSE /\ missing_rows' =
                  IF RowIsMissing(table_name, source_rows[ri],
                                  source_columns, primary_keys)
                  THEN Append(missing_rows, source_rows[ri])
                  ELSE missing_rows
            /\ ri' = ri + 1
            /\ pc' = pc
    /\ txOpen' = TRUE
    /\ UNCHANGED <<source, target, pend, target_conn, source_conn, run,
                   tables, ti, primary_keys, source_rows, source_columns,
                   calls, log, prev, pre, ext, created>>

\* the scan is exhausted: get_missing_rows returns and sync_table either
\* returns ("No missing rows to sync") or goes on to the bulk insert
probe_done ==
    /\ pc = "probe"
    /\ ri > Len(source_rows)
    /\ IF missing_rows = <<>>
       THEN Return("no_missing", 0, <<>>)
       ELSE /\ pc' = "execute_values"
            /\ UNCHANGED <<log, ti>>
    /\ UNCHANGED <<source, target, pend, txOpen, target_conn, source_conn,
                   run, tables, locals, calls, prev, pre, ext, created>>

\* ------------------------------------------------------------- sync_table
execute_values_on_source ==
    /\ pc = "execute_values"
    /\ source' = [source EXCEPT ![table_name].rows = @ \o missing_rows]
    /\ pc' = "commit"
    /\ log' = [log EXCEPT ![table_name].extIns = ext[table_name]]
    /\ txOpen' = TRUE
    /\ UNCHANGED <<target, pend, target_conn, source_conn, run, tables, ti,
                   locals, calls, prev, pre, ext, created>>

\* execute_values(cur, insert_stmt, missing_rows): a row refused by a
\* constraint of the table other than uniqueness raises IntegrityError and
\* the statement adds nothing
execute_values ==
    /\ pc = "execute_values"
    /\ LET tbl == target[table_name]
           tcols == ColumnNames(tbl.cols)
       IN  IF \E i \in 1..Len(missing_rows) :
                  Refused(tbl, Stored(missing_rows[i], source_columns, tcols))
           THEN /\ pc' = "except_IntegrityError"
                /\ pend' = pend
           ELSE /\ pc' = "commit"
                /\ pend' = [pend EXCEPT ![table_name] =
                              @ \o insert_missing_rows(Visible(table_name),
                                     tcols, tbl.key, source_columns,
                                     missing_rows)]
    /\ log' = [log EXCEPT ![table_name].extIns = ext[table_name]]
    /\ txOpen' = TRUE
    /\ UNCHANGED <<source, target, target_conn, source_conn, run, tables, ti,
                   locals, calls, prev, pre, ext, created>>

\* execute_values raises something else than IntegrityError (the server or
\* the network fails during the statement)
execute_values_fails ==
    /\ pc = "execute_values"
    /\ pc' = "except_Exception"
    /\ txOpen' = TRUE
    /\ UNCHANGED <<source, target, pend, target_conn, source_conn, run,
                   tables, ti, locals, calls, log, prev, pre, ext, created>>

\* self.target_conn.commit() and the "Synced table" line
commit ==
    /\ pc = "commit"
    /\ target' = Commit(target, pend)
    /\ created' = CommitCreated(created)
    /\ pend' = NoPending
    /\ txOpen' = FALSE
    /\ Return("synced", Len(missing_rows), pend[table_name])
    /\ UNCHANGED <<source, target_conn, source_conn, run, tables, locals,
                   calls, prev, pre, ext>>

except_IntegrityError_raises ==
    /\ pc = "except_IntegrityError"
    /\ pend' = Rollback(pend)
    /\ target' = RollbackCreated(target, created)
    /\ created' = {}
    /\ txOpen' = FALSE
    /\ log' = [log EXCEPT ![table_name].result = "integrity",
                          ![table_name].extEnd = ext[table_name]]
    /\ pc' = "exit_error"
    /\ UNCHANGED <<source, target_conn, source_conn, run, tables, ti, locals,
                   calls, prev, pre, ext>>

\* except IntegrityError: rollback, warning, the call returns normally
except_IntegrityError ==
    /\ pc = "except_IntegrityError"
    /\ pend' = Rollback(pend)
    /\ target' = RollbackCreated(target, created)
    /\ created' = {}
    /\ txOpen' = FALSE
    /\ Return("integrity", 0, <<>>)
    /\ UNCHANGED <<source, target_conn, source_conn, run, tables, locals,
                   calls, prev, pre, ext>>

except_Exception_swallows ==
    /\ pc = "except_Exception"
    /\ pend' = Rollback(pend)
    /\ target' = RollbackCreated(target, created)
    /\ created' = {}
    /\ txOpen' = FALSE
    /\ Return("error", 0, <<>>)
    /\ UNCHANGED <<source, target_conn, source_conn, run, tables, locals,
                   calls, prev, pre, ext>>

\* except Exception: rollback, error line, raise; sync_all_tables logs and
\* re-raises, main() does not catch
except_Exception ==
    /\ pc = "except_Exception"
    /\ pend' = Rollback(pend)
    /\ target' = RollbackCreated(target, created)
    /\ created' = {}
    /\ txOpen' = FALSE
    /\ log' = [log EXCEPT ![table_name].result = "error",
                          ![table_name].extEnd = ext[table_name]]
    /\ pc' = "exit_error"
    /\ UNCHANGED <<source, target_conn, source_conn, run, tables, ti, locals,
                   calls, prev, pre, ext>>

\* close_connections: closes a connection that is open.  No code path of
\* the program calls it: main() ends after sync_all_tables, and no exception
\* handler or finally clause precedes the exit.
close_connections(conn) == IF conn = "open" THEN "closed" ELSE conn

\* ------------------------------------------------------------ environment
\* the program is started again: a new process with new connections; the
\* server ends whatever transaction the old target connection left open
main ==
    /\ pc \in {"exit_ok", "exit_error"}
    /\ run < MaxRuns
    /\ run' = run + 1
    /\ pc' = "main"
    /\ target_conn' = "none"
    /\ source_conn' = "none"
    /\ pend' = NoPending
    /\ txOpen' = FALSE
    /\ tables' = <<>>
    /\ ti' = 0
    /\ primary_keys' = <<>>
    /\ source_rows' = <<>>
    /\ source_columns' = <<>>
    /\ ri' = 0
    /\ missing_rows' = <<>>
    /\ calls' = <<>>
    /\ target' = RollbackCreated(target, created)
    /\ created' = {}
    /\ UNCHANGED <<source, log, prev, pre, ext>>

\* another writer commits a row to a table of target that it can see
RECURSIVE SumOver(_, _)
SumOver(f, names) ==
    IF names = <<>> THEN 0 ELSE f[Head(names)] + SumOver(f, Tail(names))
ExtTotal == SumOver(ext, Tables)

external_write ==
    /\ ExtTotal < MaxExt
    /\ \E t \in TableNames, i \in Ids :
          LET tbl == target[t]
              r == Stored(ExternalRow(i), ColumnNames(Schema),
                          ColumnNames(tbl.cols))
          IN  /\ tbl.public
              /\ t \notin created
              /\ ~Refused(tbl, r)
              /\ ~Conflicts(Visible(t), ColumnNames(tbl.cols), tbl.key, r)
              /\ target' = [target EXCEPT ![t].rows = Append(@, r)]
              /\ ext' = [ext EXCEPT ![t] = @ + 1]
    /\ UNCHANGED <<source, pend, txOpen, target_conn, source_conn, pc, run,
                   tables, ti, locals, calls, log, prev, pre, created>>

Next ==
    \/ connect_target
    \/ connect_source
    \/ sync_all_tables
    \/ for_table
    \/ check_and_create_table
    \/ get_missing_rows
    \/ probe
    \/ probe_done
    \/ execute_values
    \/ execute_values_fails
    \/ commit
    \/ except_IntegrityError
    \/ except_Exception
    \/ main
    \/ external_write

Spec == Init /\ [][Next]_vars

\* ================================================================ claims
\* value of column c in a row laid out as cols
ColValue(row, cols, c) == row[Index(cols, c)]
SourceColumns(t) == ColumnNames(source[t].cols)
TargetColumns(t) == ColumnNames(target[t].cols)
\* a row of target(t) has the values of source row s on the primary key
\* columns of source table t; two rows of target(t) agree on them
KeyOfSource(t, row, s) ==
    \A c \in 1..Len(source[t].pk) :
        ColValue(row, TargetColumns(t), source[t].pk[c])
          = ColValue(s, SourceColumns(t), source[t].pk[c])
SameKey(t, r1, r2) ==
    \A c \in 1..Len(source[t].pk) :
        ColValue(r1, TargetColumns(t), source[t].pk[c])
          = ColValue(r2, TargetColumns(t), source[t].pk[c])
Exits == {"exit_ok", "exit_error"}
\* no other writer touched table t since the latest sync_table(t) began
Undisturbed(t) == ext[t] = log[t].ext

C2_CommittedSurvivesRollback ==
    \A i \in 1..Len(calls) :
        (/\ pc = "exit_error"
         /\ log[calls[Len(calls)]].result = "error"
         /\ i < Len(calls)
         /\ log[calls[i]].result = "synced")
        => \A j \in 1..Len(log[calls[i]].added) :
               \E k \in 1..Len(target[calls[i]].rows) :
                   target[calls[i]].rows[k] = log[calls[i]].added[j]

C2_Witness ==
    /\ pc = "exit_error"
    /\ Len(calls) = 2
    /\ log[calls[1]].result = "synced"
    /\ log[calls[1]].added # <<>>
    /\ log[calls[2]].result = "error"

\* sync_table(t) has been called after an earlier sync_table(t) ended, and
\* no other writer wrote to t from the end of the earlier one on
SecondOfTwo(t) ==
    /\ prev[t].result # "none"
    /\ ext[t] = prev[t].extEnd
\* the call on t finds nothing missing, inserts nothing and leaves
\* target(t) as it was
NothingDone(t) ==
    /\ log[t].result \in {"none", "no_missing"}
    /\ (log[t].result = "none" /\ pc \notin {"check_and_create_table",
                                              "get_missing_rows"})
         => missing_rows = <<>>
    /\ log[t].count = 0
    /\ log[t].added = <<>>
    /\ pend[t] = <<>>
    /\ target[t].rows = pre[t]

C4_ConflictLeavesRow ==
    \A t \in TableNames :
        (source[t].pk # <<>> /\ target[t].public /\ Undisturbed(t))
        => /\ Len(Visible(t)) >= Len(pre[t])
           /\ \A j \in 1..Len(pre[t]) : Visible(t)[j] = pre[t][j]
           /\ \A n \in (Len(pre[t]) + 1)..Len(Visible(t)) :
                 \A j \in 1..Len(pre[t]) :
                     SameKey(t, Visible(t)[n], pre[t][j])
                     => \A i \in 1..Len(source[t].rows) :
                            ~KeyOfSource(t, pre[t][j], source[t].rows[i])

\* a call has ended on a table that held, when the call began, a row with
\* the key of a source row and another name
C4_Witness ==
    \E t \in TableNames :
        /\ source[t].pk # <<>>
        /\ log[t].result \in {"no_missing", "synced"}
        /\ Undisturbed(t)
        /\ \E i \in 1..Len(source[t].rows), j \in 1..Len(pre[t]) :
              /\ KeyOfSource(t, pre[t][j], source[t].rows[i])
              /\ Stored(source[t].rows[i], SourceColumns(t),
                        TargetColumns(t)) # pre[t][j]

\* C5: when a run has ended (success, exception during sync, or a failed
\* connect), no connection it opened is still open.
C5_ConnectionsReleased ==
    pc \in Exits => (target_conn # "open" /\ source_conn # "open")

\* C6: the insert of a row whose key another writer committed to target(T)
\* between the probe and the insert is dropped: when sync_table has
\* committed and nobody wrote to T after its INSERT was executed, no two
\* rows of target(T) share the primary key values of a source row.
C6_NoDuplicateKey ==
    \A t \in TableNames :
        (/\ source[t].pk # <<>>
         /\ log[t].result = "synced"
         /\ ext[t] = log[t].extIns)
        => \A i \in 1..Len(source[t].rows) :
               \A j, k \in 1..Len(target[t].rows) :
                   (/\ KeyOfSource(t, target[t].rows[j], source[t].rows[i])
                    /\ KeyOfSource(t, target[t].rows[k], source[t].rows[i]))
                   => j = k

\* the tables after position i of the enumeration have all been passed to
\* sync_table, unless the unexpected failure of one of them ended the run
GoesOnAfter(i) ==
    \/ Len(calls) = Len(tables)
    \/ \E j \in (i + 1)..Len(calls) : log[calls[j]].result = "error"

\* C7: after an integrity violation of the bulk insert of a table the
\* target transaction is rolled back (nothing pending, no transaction open,
\* target(T) as before), sync_table has returned to the loop, and
\* sync_all_tables goes on with the tables after it.
C7_IntegrityContinues ==
    \A i \in 1..Len(calls) :
        log[calls[i]].result = "integrity"
        => /\ i = Len(calls)
                => /\ pc \in {"for", "exit_ok"}
                   /\ ti = i + 1
                   /\ pend = NoPending
                   /\ ~txOpen
                   /\ Undisturbed(calls[i])
                        => target[calls[i]].rows = pre[calls[i]]
           /\ pc \in Exits => GoesOnAfter(i)

C7_Witness ==
    /\ Len(calls) = 2
    /\ log[calls[1]].result = "integrity"
    /\ log[calls[2]].result = "synced"
    /\ pc = "exit_ok"

\* C8: after a failure of sync_table(T) other than an integrity violation
\* the target transaction is rolled back, the run has ended with the error
\* re-raised, T is the last table sync_table was called on, and overall
\* success is not reported.
C8_ErrorAborts ==
    \A i \in 1..Len(calls) :
        log[calls[i]].result = "error"
        => /\ i = Len(calls)
           /\ pc = "exit_error"
           /\ pend = NoPending
           /\ ~txOpen

C8_Witness ==
    /\ pc = "exit_error"
    /\ Len(tables) = 2
    /\ Len(calls) = 1
    /\ log[calls[1]].result = "error"

\* C9: sync_table on a source table without primary key logs the missing
\* key, finds nothing missing, inserts no row, and the table exists in the
\* target schema the engine addresses.
C9_NoPrimaryKey ==
    \A t \in TableNames :
        (source[t].pk = <<>> /\ log[t].result # "none")
        => /\ log[t].pkerror
           /\ log[t].result = "no_missing"
           /\ log[t].count = 0
           /\ log[t].added = <<>>
           /\ pend[t] = <<>>
           /\ target[t].public

\* C10: a table without primary key does not end the run: its sync_table
\* returns to the loop, and sync_all_tables goes on with the tables after
\* it.
C10_NoPrimaryKeyContinues ==
    \A i \in 1..Len(calls) :
        log[calls[i]].pkerror
        => /\ log[calls[i]].result = "no_missing"
           /\ i = Len(calls) => (pc \in {"for", "exit_ok"} /\ ti = i + 1)
           /\ pc \in Exits => GoesOnAfter(i)

\* the run ended with overall success although its first table has no
\* primary key, and the table after it was synced
C10_Witness ==
    /\ pc = "exit_ok"
    /\ Len(calls) = 2
    /\ log[calls[1]].pkerror
    /\ log[calls[2]].result = "synced"

\* the row of the scan of source table t as the INSERT stores it in target
StoredSource(t, i) ==
    Stored(source[t].rows[i], SourceColumns(t), TargetColumns(t))

\* C11: a source table with primary key whose name the public schema of
\* target did not hold when sync_table began: once the call has ended
\* without error (and no other writer wrote to the table) target has the
\* table, and its rows are the source rows, each once and no other.
C11_EndToEnd ==
    \A t \in TableNames :
        (/\ source[t].pk # <<>>
         /\ log[t].absent
         /\ log[t].result \in {"no_missing", "synced"}
         /\ Undisturbed(t))
        => /\ target[t].public
           /\ Len(target[t].rows) = Len(source[t].rows)
           /\ \A i \in 1..Len(source[t].rows) :
                 \E k \in 1..Len(target[t].rows) :
                     target[t].rows[k] = StoredSource(t, i)

\* C12: when sync_table has returned to the loop of sync_all_tables, or
\* the run has ended, target_conn has no transaction in progress.
C12_TransactionEnded ==
    pc \in {"for", "exit_ok", "exit_error"} => ~txOpen

\* C13: a table the engine created has the columns of the source table of
\* the public schema: the same (name, type) pairs in the same order.
C13_CreatedColumns ==
    \A t \in TableNames :
        log[t].schema = "copied" => target[t].cols = source[t].cols

\* C14: the step of check_and_create_table on a table the public schema of
\* target already holds changes nothing in target: the catalog, the schema
\* and the rows of every table are the same after the step as before, and
\* nothing is written that a later commit would add.
C14_ExistingTableUntouched ==
    [][(/\ pc = "check_and_create_table"
        /\ pc' # pc
        /\ target[table_name].public)
       => (target' = target /\ pend' = pend)]_vars

\* the step has been taken on an existing table that holds rows and whose
\* columns are not those of the source table
C14_Witness ==
    /\ pc = "get_missing_rows"
    /\ log[table_name].schema = "exists"
    /\ target[table_name].public
    /\ target[table_name].rows # <<>>
    /\ target[table_name].cols # source[table_name].cols

\* sync_table(t) is the latest call, it went through the diff and it has
\* just ended: missing_rows is still the missing-row set it computed
JustEnded(t) ==
    /\ calls # <<>>
    /\ t = calls[Len(calls)]
    /\ pc \in {"for", "exit_ok", "exit_error"}
    /\ log[t].schema # "none"
\* row i of the missing-row set as the INSERT stores it in target(t)
StoredMissing(t, i) == Stored(missing_rows[i], source_columns, TargetColumns(t))
\* the stored row i of the missing-row set is a committed row of target(t)
MissingCommitted(t, i) ==
    \E k \in 1..Len(target[t].rows) : target[t].rows[k] = StoredMissing(t, i)
\* after a failed sync none of the missing rows is committed or pending
NoneCommitted(t) ==
    /\ pend[t] = <<>>
    /\ \A i \in 1..Len(missing_rows) : ~MissingCommitted(t, i)

DiffDone ==
    \/ pc = "probe" /\ ri > Len(source_rows)
    \/ pc = "execute_values"
\* no row of target(t) has the values of scan row s on every primary key
\* column of source table t
NoMatch(t, s) ==
    \A k \in 1..Len(target[t].rows) : ~KeyOfSource(t, target[t].rows[k], s)

\* C16: for a table with primary key, when get_missing_rows returns (and no
\* other writer wrote to the table since the call began) the rows it
\* returns are the rows of the source scan that no row of target matches on
\* the primary key columns, in scan order, and the column list it returns
\* is the column list of the scanned table.
C16_MissingRows ==
    (DiffDone /\ Undisturbed(table_name))
    => /\ source_rows = source[table_name].rows
       /\ source_columns = SourceColumns(table_name)
       /\ missing_rows =
             SelectSeq(source[table_name].rows,
                       LAMBDA s : NoMatch(table_name, s))

\* get_missing_rows returns the second row of a scan of two rows: target
\* holds a row with the key of the first one
C16_Witness ==
    /\ pc = "execute_values"
    /\ Undisturbed(table_name)
    /\ Len(source_rows) = MaxId
    /\ missing_rows = <<source_rows[MaxId]>>

\* C17: sync_table is called on the enumerated tables in the order of the
\* enumeration, each at most once; a call begins only when every call
\* before it has ended; when the run ends with overall success every
\* enumerated table has had its call, and the call has ended.
C17_Sequential ==
    /\ Len(calls) <= Len(tables)
    /\ \A i \in 1..Len(calls) :
          /\ calls[i] = tables[i]
          /\ i < Len(calls) => log[calls[i]].result # "none"
    /\ pc = "exit_ok"
          => /\ Len(calls) = Len(tables)
             /\ \A i \in 1..Len(calls) : log[calls[i]].result # "none"

\* a run over two tables has ended with overall success
C17_Witness ==
    /\ pc = "exit_ok"
    /\ Len(tables) = 2
    /\ calls = tables
    /\ \A i \in 1..Len(calls) : log[calls[i]].result \in {"synced", "no_missing"}

\* C18: once check_and_create_table has completed without error, and for
\* the rest of the sync_table call, the table exists in the public schema
\* of target, which is where the probes and the INSERT look for it.
C18_TableEnsured ==
    pc \in {"get_missing_rows", "probe", "execute_values", "commit"}
    => target[table_name].public

\* C19: no step of the run (connect, ensure-table, diff, insert, commit,
\* rollback, error exit, restart) changes the source database: its tables,
\* their columns, keys and rows stay as they are.
C19_SourceReadOnly == [][source' = source]_vars

\* a run has created a table in target, inserted and committed its rows,
\* and rolled back the failed insert of the next table
C19_Witness ==
    /\ pc = "exit_error"
    /\ Len(calls) = 2
    /\ log[calls[1]].schema = "copied"
    /\ log[calls[1]].result = "synced"
    /\ log[calls[2]].schema = "copied"
    /\ log[calls[2]].result = "error"
    /\ missing_rows # <<>>

\* C20: after a sync_table call that failed (integrity violation or
\* unexpected failure) and was rolled back, a table the call created is
\* still in target, nothing of the call is pending, every row target(T)
\* held when the call began is still there in place, and, when no other
\* writer wrote to T since, target(T) holds those rows and no other (none
\* for a table the call created).
C20_CreationSurvivesRollback ==
    \A t \in TableNames :
        log[t].result \in {"integrity", "error"}
        => /\ log[t].schema = "copied" => (target[t].public /\ pre[t] = <<>>)
           /\ pend[t] = <<>>
           /\ Len(target[t].rows) >= Len(pre[t])
           /\ \A j \in 1..Len(pre[t]) : target[t].rows[j] = pre[t][j]
           /\ Undisturbed(t) => target[t].rows = pre[t]

\* the bulk insert into a table created by the same call has failed and
\* has been rolled back
C20_Witness ==
    \E t \in TableNames :
        /\ log[t].schema = "copied"
        /\ log[t].result = "error"
        /\ missing_rows # <<>>
        /\ target[t].public
        /\ target[t].rows = <<>>
====
